---- MODULE Spec2Model ----
(***************************************************************************)
(* Model of gradio_legacyimage.LegacyImage                                 *)
(* (src/backend/gradio_legacyimage/legacyimage.py): construction           *)
(* (__init__), ingestion (preprocess) and egestion (postprocess).          *)
(*                                                                         *)
(* Python values are records tagged by `variant`; a call either returns a  *)
(* value or raises, which is an outcome record tagged by `kind`.  Rasters  *)
(* are one pixel row high: `px` is the row, a pixel is the tuple of its    *)
(* channel values in the order of the mode's bands.                        *)
(***************************************************************************)
EXTENDS Integers, Sequences, FiniteSets, TLC

VARIABLES self, last

vars == <<self, last>>

\* Widest raster the payloads carry.
MaxWidth == 3

(***************************************************************************)
(* Python values                                                           *)
(***************************************************************************)
None == [variant |-> "None"]

\* PIL.Image.Image
Image(mode, px) == [variant |-> "Image", mode |-> mode, px |-> px]

\* str: a base64 data string holding an encoded raster, a path (or URL) of
\* a file holding one, or a string that is neither.
Str(form, img) == [variant |-> "Str", form |-> form, img |-> img]

\* pathlib.Path of a file holding an encoded raster
PathObj(img) == [variant |-> "Path", img |-> img]

\* numpy.ndarray of an image
Array(channels, px) == [variant |-> "Array", channels |-> channels, px |-> px]

\* a value that is none of the above (bytes)
Bytes == [variant |-> "Bytes"]

\* ImageData / PreprocessData: the pair (back, mask)
ImageData(back, mask) == [variant |-> "Data", back |-> back, mask |-> mask]

(***************************************************************************)
(* Outcomes of a call.  `decoded` lists the payload fields handed to       *)
(* decode_base64_to_image, in call order.                                  *)
(***************************************************************************)
Return(v, dec) == [kind |-> "return", value |-> v, exc |-> "", decoded |-> dec]

Raise(e, dec) == [kind |-> "raise", value |-> None, exc |-> e, decoded |-> dec]

(***************************************************************************)
(* Rasters                                                                 *)
(***************************************************************************)
Bands(mode) ==
    CASE mode = "L" -> <<"L">>
      [] mode = "LA" -> <<"L", "A">>
      [] mode = "RGB" -> <<"R", "G", "B">>
      [] mode = "RGBA" -> <<"R", "G", "B", "A">>

Colours == << <<255, 0, 0>>, <<10, 20, 31>>, <<0, 0, 255>>, <<200, 100, 50>> >>

Greys == <<0, 255, 77, 130>>

Alphas == <<255, 0, 128, 64>>

Wrap(i, s) == s[((i - 1) % Len(s)) + 1]

\* the i-th sample pixel of a mode
SamplePixel(mode, i) ==
    CASE mode = "L" -> <<Wrap(i, Greys)>>
      [] mode = "LA" -> <<Wrap(i, Greys), Wrap(i, Alphas)>>
      [] mode = "RGB" -> Wrap(i, Colours)
      [] mode = "RGBA" -> Wrap(i, Colours) \o <<Wrap(i, Alphas)>>

SampleImages(modes) ==
    {Image(m, [i \in 1..w |-> SamplePixel(m, i)]) : m \in modes, w \in 1..MaxWidth}

\* ITU-R 601-2 luma as PIL's rgb2l computes it
Luma(r, g, b) == (r * 19595 + g * 38470 + b * 7471 + 32768) \div 65536

ToRGBA(mode, p) ==
    CASE mode = "L" -> <<p[1], p[1], p[1], 255>>
      [] mode = "LA" -> <<p[1], p[1], p[1], p[2]>>
      [] mode = "RGB" -> <<p[1], p[2], p[3], 255>>
      [] mode = "RGBA" -> p

FromRGBA(mode, q) ==
    CASE mode = "L" -> <<Luma(q[1], q[2], q[3])>>
      [] mode = "LA" -> <<Luma(q[1], q[2], q[3]), q[4]>>
      [] mode = "RGB" -> <<q[1], q[2], q[3]>>
      [] mode = "RGBA" -> q

\* PIL.Image.Image.convert
convert(im, mode) ==
    IF im.mode = mode THEN im
    ELSE Image(mode, [i \in 1..Len(im.px) |-> FromRGBA(mode, ToRGBA(im.mode, im.px[i]))])

\* processing_utils.resize_and_crop (centre fit to shape = <<width, height>>):
\* a wider row is cropped about its centre, a narrower one is stretched.
resize_and_crop(im, shape) ==
    LET W == Len(im.px)
        w == shape[1]
        left == (W - w) \div 2
    IN  IF W >= w
        THEN Image(im.mode, [i \in 1..w |-> im.px[left + i]])
        ELSE Image(im.mode, [i \in 1..w |-> im.px[(((i - 1) * W) \div w) + 1]])

\* PIL.ImageOps.invert
invert(im) ==
    Image(im.mode, [i \in 1..Len(im.px) |->
                       [c \in 1..Len(im.px[i]) |-> 255 - im.px[i][c]]])

\* PIL.ImageOps.mirror
mirror(im) ==
    Image(im.mode, [i \in 1..Len(im.px) |-> im.px[Len(im.px) + 1 - i]])

\* PIL.Image.Image.getchannel
getchannel(im, band) ==
    LET k == CHOOSE j \in 1..Len(Bands(im.mode)) : Bands(im.mode)[j] = band
    IN  Image("L", [i \in 1..Len(im.px) |-> <<im.px[i][k]>>])

\* PIL.Image.merge of single-band images
merge(mode, bands) ==
    Image(mode, [i \in 1..Len(bands[1].px) |->
                    [c \in 1..Len(bands) |-> bands[c].px[i][1]]])

(***************************************************************************)
(* Collaborators from gradio the component calls                           *)
(***************************************************************************)
\* processing_utils.decode_base64_to_image: fails on None (it is no string)
\* and on a string that holds no base64-encoded raster.
decode_base64_to_image(e, dec) ==
    IF e.variant = "Str" /\ e.form = "base64"
    THEN Return(e.img, dec)
    ELSE Raise("DecodeError", dec)

\* image_utils.format_image, reached through LegacyImage.format_image
format_image(s, im) ==
    IF im = None THEN None
    ELSE CASE s.type = "pil" -> im
           [] s.type = "numpy" -> Array(Len(Bands(im.mode)), im.px)
           [] s.type = "filepath" -> Str("path", im)

ModeOfChannels(n) ==
    CASE n = 1 -> "L" [] n = 2 -> "LA" [] n = 3 -> "RGB" [] n = 4 -> "RGBA"

\* processing_utils.encode_array_to_base64
encode_array_to_base64(v) ==
    IF v.variant = "Array"
    THEN Return(Str("base64", Image(ModeOfChannels(v.channels), v.px)), <<>>)
    ELSE Raise("TypeError", <<>>)

\* processing_utils.encode_pil_to_base64
encode_pil_to_base64(v) ==
    IF v.variant = "Image"
    THEN Return(Str("base64", v), <<>>)
    ELSE Raise("TypeError", <<>>)

\* client_utils.encode_url_or_file_to_base64
encode_url_or_file_to_base64(v) ==
    IF v.variant = "Path" \/ (v.variant = "Str" /\ v.form = "path")
    THEN Return(Str("base64", v.img), <<>>)
    ELSE Raise("TypeError", <<>>)

(***************************************************************************)
(* LegacyImage.__init__                                                    *)
(***************************************************************************)
valid_types == {"numpy", "pil", "filepath"}

valid_sources == {"upload", "webcam", "canvas"}

\* the Literal the `tool` parameter is annotated with
ToolLiteral == {"editor", "select", "sketch", "color-sketch"}

NoTool == "None"

NoShape == <<>>

\* __init__ without the membership test of `source`
init_unchecked_source(o) ==
    IF o.type \notin valid_types THEN Raise("ValueError", <<>>)
    ELSE IF o.streaming /\ o.source # "webcam" THEN Raise("ValueError", <<>>)
    ELSE Return([variant |-> "LegacyImage",
                 mirror_webcam |-> o.mirror_webcam, type |-> o.type,
                 image_mode |-> o.image_mode, streaming |-> o.streaming,
                 source |-> o.source,
                 tool |-> IF o.tool = NoTool
                          THEN (IF o.source = "canvas" THEN "sketch" ELSE "editor")
                          ELSE o.tool,
                 invert_colors |-> o.invert_colors, shape |-> o.shape], <<>>)

\* __init__ without the streaming test
init_unchecked_streaming(o) ==
    IF o.type \notin valid_types THEN Raise("ValueError", <<>>)
    ELSE IF o.source \notin valid_sources THEN Raise("ValueError", <<>>)
    ELSE Return([variant |-> "LegacyImage",
                 mirror_webcam |-> o.mirror_webcam, type |-> o.type,
                 image_mode |-> o.image_mode, streaming |-> o.streaming,
                 source |-> o.source,
                 tool |-> IF o.tool = NoTool
                          THEN (IF o.source = "canvas" THEN "sketch" ELSE "editor")
                          ELSE o.tool,
                 invert_colors |-> o.invert_colors, shape |-> o.shape], <<>>)

init(o) ==
    IF o.type \notin valid_types THEN Raise("ValueError", <<>>)
    ELSE IF o.source \notin valid_sources THEN Raise("ValueError", <<>>)
    ELSE IF o.streaming /\ o.source # "webcam" THEN Raise("ValueError", <<>>)
    ELSE Return([variant |-> "LegacyImage",
                 mirror_webcam |-> o.mirror_webcam, type |-> o.type,
                 image_mode |-> o.image_mode, streaming |-> o.streaming,
                 source |-> o.source,
                 tool |-> IF o.tool = NoTool
                          THEN (IF o.source = "canvas" THEN "sketch" ELSE "editor")
                          ELSE o.tool,
                 invert_colors |-> o.invert_colors, shape |-> o.shape], <<>>)

(***************************************************************************)
(* LegacyImage.preprocess                                                  *)
(***************************************************************************)
\* the mask branch taken for every source
mask_branch_any_tool(s) == s.source \in {"upload", "webcam"}

mask_branch(s) == s.tool = "sketch" /\ s.source \in {"upload", "webcam"}

\* the mirror test without the color-sketch exemption
mirror_webcam_any_tool(s) == s.source = "webcam" /\ s.mirror_webcam = TRUE

mirror_webcam_applies(s) ==
    s.source = "webcam" /\ s.mirror_webcam = TRUE /\ s.tool # "color-sketch"

transform_back(s, im) ==
    LET im1 == convert(im, s.image_mode)
        im2 == IF s.shape # NoShape THEN resize_and_crop(im1, s.shape) ELSE im1
        im3 == IF s.invert_colors THEN invert(im2) ELSE im2
    IN  IF mirror_webcam_applies(s) THEN mirror(im3) ELSE im3

\* the flattening reading the red band instead of the alpha band
flatten_mask_red(mask_im) ==
    IF mask_im.mode = "RGBA"
    THEN LET alpha_data == convert(getchannel(mask_im, "R"), "L")
         IN  merge("RGB", <<alpha_data, alpha_data, alpha_data>>)
    ELSE mask_im

flatten_mask(mask_im) ==
    IF mask_im.mode = "RGBA"
    THEN LET alpha_data == convert(getchannel(mask_im, "A"), "L")
         IN  merge("RGB", <<alpha_data, alpha_data, alpha_data>>)
    ELSE mask_im

\* the mask sent through the background's mirror step
mask_out_mirrored(s, mask_im) ==
    format_image(s, IF mirror_webcam_applies(s)
                    THEN mirror(flatten_mask(mask_im))
                    ELSE flatten_mask(mask_im))

mask_out(s, mask_im) == format_image(s, flatten_mask(mask_im))

preprocess(s, x) ==
    IF x = None THEN Return(x, <<>>)
    ELSE
    LET m == IF mask_branch(s) /\ x.mask # None
             THEN decode_base64_to_image(x.mask, <<"mask">>)
             ELSE Return(None, <<>>)
    IN  IF m.kind = "raise" THEN m
        ELSE
        LET b == decode_base64_to_image(x.back, m.decoded \o <<"back">>)
        IN  IF b.kind = "raise" THEN b
            ELSE
            LET im == transform_back(s, b.value)
                mask_im == m.value
            IN  IF mask_branch(s)
                THEN IF mask_im = None
                     THEN Raise("AttributeError", b.decoded)
                     ELSE Return(ImageData(format_image(s, im),
                                           mask_out(s, mask_im)), b.decoded)
                ELSE Return(ImageData(format_image(s, im), None), b.decoded)

(***************************************************************************)
(* LegacyImage.postprocess                                                 *)
(***************************************************************************)
PostData(enc) ==
    IF enc.kind = "raise" THEN enc ELSE Return(ImageData(enc.value, None), <<>>)

\* the dispatch taken on the configured `type` instead of the value
postprocess_by_type(s, y) ==
    IF y = None THEN Return(None, <<>>)
    ELSE CASE s.type = "numpy" -> PostData(encode_array_to_base64(y.back))
           [] s.type = "pil" -> PostData(encode_pil_to_base64(y.back))
           [] s.type = "filepath" -> PostData(encode_url_or_file_to_base64(y.back))

postprocess(s, y) ==
    IF y = None THEN Return(None, <<>>)
    ELSE IF y.back.variant = "Array"
    THEN PostData(encode_array_to_base64(y.back))
    ELSE IF y.back.variant = "Image"
    THEN PostData(encode_pil_to_base64(y.back))
    ELSE IF y.back.variant \in {"Str", "Path"}
    THEN PostData(encode_url_or_file_to_base64(y.back))
    ELSE Raise("ValueError", <<>>)

(***************************************************************************)
(* Inputs                                                                  *)
(***************************************************************************)
\* Constructor arguments: every value of each enumeration and one value
\* outside it; the two colour modes PIL.ImageOps.invert accepts.
Options ==
    [type : valid_types \cup {"bytes"},
     source : valid_sources \cup {"clipboard"},
     tool : ToolLiteral \cup {NoTool, "brush"},
     image_mode : {"RGB", "L"},
     shape : {NoShape, <<2, 1>>},
     invert_colors : BOOLEAN,
     mirror_webcam : BOOLEAN,
     streaming : BOOLEAN]

Garbage == Str("garbage", None)

BackStrings ==
    {Str("base64", im) : im \in SampleImages({"RGB"})} \cup {Garbage}

MaskStrings ==
    {Str("base64", im) : im \in SampleImages({"RGBA", "LA"})} \cup {Garbage}

Payloads ==
    {None} \cup {ImageData(b, m) : b \in BackStrings \cup {None},
                                   m \in MaskStrings \cup {None}}

AppValues ==
    LET ims == SampleImages({"RGB"})
    IN  ims \cup {Array(Len(Bands(im.mode)), im.px) : im \in ims}
            \cup {Str("path", im) : im \in ims}
            \cup {PathObj(im) : im \in ims}

PostValues ==
    {None} \cup {ImageData(b, m) : b \in AppValues \cup {None, Bytes},
                                   m \in {None, Image("RGB", << <<255, 255, 255>> >>)}}

(***************************************************************************)
(* State machine: `self` is the component once constructed, `last` the     *)
(* latest call with its argument and outcome.                              *)
(***************************************************************************)
Init ==
    /\ self = None
    /\ last = [op |-> "none", arg |-> None, out |-> Return(None, <<>>)]

\* the constructor runs once: a component is built, or the call raises and
\* there is no component to call.
Construct ==
    /\ last.op = "none"
    /\ \E o \in Options :
         LET r == init(o)
         IN  /\ last' = [op |-> "__init__", arg |-> o, out |-> r]
             /\ self' = IF r.kind = "return" THEN r.value ELSE None

Preprocess ==
    /\ self # None
    /\ \E x \in Payloads :
         last' = [op |-> "preprocess", arg |-> x, out |-> preprocess(self, x)]
    /\ UNCHANGED self

Postprocess ==
    /\ self # None
    /\ \E y \in PostValues :
         last' = [op |-> "postprocess", arg |-> y, out |-> postprocess(self, y)]
    /\ UNCHANGED self

Next == Construct \/ Preprocess \/ Postprocess

Spec == Init /\ [][Next]_vars

(***************************************************************************)
(* Vocabulary of the properties                                            *)
(***************************************************************************)
\* a constructed component whose tool is one the parameter's Literal names
ValidCfg == self # None /\ self.tool \in ToolLiteral

Ingested == last.op = "preprocess"

Egested == last.op = "postprocess"

Constructed == last.op = "__init__"

Returned == last.out.kind = "return"

Raised == last.out.kind = "raise"

\* the payload is an object (not None itself)
HasPayload == Ingested /\ last.arg # None

BackAbsent == Ingested /\ (last.arg = None \/ (last.arg # None /\ last.arg.back = None))

BackDecodable == HasPayload /\ last.arg.back # None /\ last.arg.back.form = "base64"

MaskAbsent == HasPayload /\ last.arg.mask = None

MaskDecodable == HasPayload /\ last.arg.mask # None /\ last.arg.mask.form = "base64"

\* the raster an application value (array, image or file path) holds
RasterOf(v) ==
    CASE v.variant = "Image" -> v
      [] v.variant = "Array" -> Image(ModeOfChannels(v.channels), v.px)
      [] v.variant = "Str" -> v.img

Reverse(sq) == [i \in 1..Len(sq) |-> sq[Len(sq) + 1 - i]]

(***************************************************************************)
(* C1                                                                      *)
(***************************************************************************)
\* C1: for every valid configuration, preprocess of a payload whose
\* background is absent (the payload is None, or it is an object whose
\* `back` is None, with or without a mask) returns None and does not raise.
C1_AbsentBackgroundReturnsNone ==
    (ValidCfg /\ BackAbsent) => (Returned /\ last.out.value = None)

(***************************************************************************)
(* C2                                                                      *)
(***************************************************************************)
\* C2: with tool = sketch and source upload or webcam, preprocess of a
\* payload with a present (decodable) background and a None mask returns
\* {back: converted background, mask: None} and does not raise.
C2_AbsentMaskReturnsNoneMask ==
    (ValidCfg /\ self.tool = "sketch" /\ self.source \in {"upload", "webcam"}
        /\ BackDecodable /\ MaskAbsent)
    => (/\ Returned
        /\ last.out.value.variant = "Data"
        /\ last.out.value.mask = None
        /\ last.out.value.back # None)

C4_FailsOnlyOnBackgroundDecode ==
    /\ (ValidCfg /\ BackDecodable) => Returned
    /\ (ValidCfg /\ HasPayload /\ last.arg.back = Garbage)
       => (Raised /\ last.out.exc = "DecodeError")

(***************************************************************************)
(* C5                                                                      *)
(***************************************************************************)
\* the returned mask has three channels, each the original mask's alpha
AlphaReplicated ==
    LET orig == last.arg.mask.img
        a == CHOOSE j \in 1..Len(Bands(orig.mode)) : Bands(orig.mode)[j] = "A"
        got == RasterOf(last.out.value.mask)
    IN  /\ Len(got.px) = Len(orig.px)
        /\ \A i \in 1..Len(got.px) :
             got.px[i] = <<orig.px[i][a], orig.px[i][a], orig.px[i][a]>>

SketchMaskReturned ==
    /\ ValidCfg /\ self.tool = "sketch" /\ self.source \in {"upload", "webcam"}
    /\ MaskDecodable /\ Returned

C6_NoMaskOutsideSketch ==
    (self # None /\ self.tool # "sketch" /\ HasPayload /\ last.arg.back # None)
    => (/\ Returned => (last.out.value # None /\ last.out.value.mask = None)
        /\ \A i \in 1..Len(last.out.decoded) : last.out.decoded[i] # "mask"
        /\ BackDecodable => Returned)

C6_Witness ==
    /\ ValidCfg /\ self.tool = "editor" /\ self.source = "upload"
    /\ BackDecodable /\ MaskDecodable
    /\ Returned /\ last.out.value.mask = None

(***************************************************************************)
(* C7                                                                      *)
(***************************************************************************)
\* the four steps in the stated order, each under its stated condition
StatedChain(c, decoded) ==
    LET step1 == convert(decoded, c.image_mode)
        step2 == IF c.shape # NoShape THEN resize_and_crop(step1, c.shape) ELSE step1
        step3 == IF c.invert_colors THEN invert(step2) ELSE step2
        step4 == IF c.source = "webcam" /\ c.mirror_webcam /\ c.tool # "color-sketch"
                 THEN mirror(step3) ELSE step3
    IN  step4

\* the first three steps alone
Unflipped(c, decoded) ==
    LET step1 == convert(decoded, c.image_mode)
        step2 == IF c.shape # NoShape THEN resize_and_crop(step1, c.shape) ELSE step1
    IN  IF c.invert_colors THEN invert(step2) ELSE step2

\* C7: the background preprocess returns is the decoded background taken
\* through (1) mode coercion, (2) resize-and-crop iff a shape is set,
\* (3) inversion iff invert_colors, (4) horizontal flip iff source = webcam,
\* mirroring is on and tool is not color-sketch, in this order; webcam +
\* mirror + editor returns the flipped row, webcam + mirror + color-sketch
\* the unflipped one.
C7_TransformChainOrder ==
    (self # None /\ Ingested /\ Returned /\ last.out.value # None)
    => (LET got == RasterOf(last.out.value.back)
            decoded == last.arg.back.img
        IN  /\ got = StatedChain(self, decoded)
            /\ (self.source = "webcam" /\ self.mirror_webcam /\ self.tool = "editor")
               => got.px = Reverse(Unflipped(self, decoded).px)
            /\ (self.source = "webcam" /\ self.mirror_webcam
                   /\ self.tool = "color-sketch")
               => got.px = Unflipped(self, decoded).px)

C7_Witness ==
    /\ ValidCfg /\ Ingested /\ Returned /\ last.out.value # None
    /\ self.source = "webcam" /\ self.mirror_webcam /\ self.tool = "editor"
    /\ self.image_mode = "L" /\ self.shape # NoShape /\ self.invert_colors
    /\ Len(last.arg.back.img.px) = MaxWidth
    /\ RasterOf(last.out.value.back).px # Unflipped(self, last.arg.back.img).px
    /\ RasterOf(last.out.value.back).px = Reverse(Unflipped(self, last.arg.back.img).px)

C9_StreamingNeedsWebcam ==
    /\ (Constructed /\ last.arg.streaming /\ last.arg.source \in {"upload", "canvas"})
       => (Raised /\ last.out.exc = "ValueError" /\ self = None)
    /\ (self # None /\ self.streaming) => self.source = "webcam"

C9_Witness ==
    /\ Constructed
    /\ last.arg.type \in valid_types
    /\ last.arg.streaming /\ last.arg.source = "upload"
    /\ Raised /\ self = None

(***************************************************************************)
(* C10                                                                     *)
(***************************************************************************)
\* the configurations that differ from c at most in colour mode, fixed
\* shape, inversion and mirroring
SameButBackgroundSteps(c) ==
    {[c EXCEPT !.image_mode = md, !.shape = sh,
               !.invert_colors = inv, !.mirror_webcam = mir] :
        md \in {"RGB", "L"}, sh \in {NoShape, <<2, 1>>},
        inv \in BOOLEAN, mir \in BOOLEAN}

\* (the last band of a mask pixel, returned or supplied, is its alpha)
\* C10: the mask preprocess returns does not pass through the background's
\* transform chain: for the same payload it is the same under every choice
\* of colour mode, fixed shape, inversion and mirroring, and when present
\* it keeps the payload mask's width and pixel order even when the
\* background is resized and mirrored.
C10_MaskOutsideTransformChain ==
    (self # None /\ Ingested /\ Returned /\ last.out.value # None)
    => (/\ \A c \in SameButBackgroundSteps(self) :
              LET r == preprocess(c, last.arg)
              IN  /\ r.kind = "return"
                  /\ r.value.mask = last.out.value.mask
        /\ last.out.value.mask # None
           => LET got == RasterOf(last.out.value.mask)
                  orig == last.arg.mask.img
              IN  /\ Len(got.px) = Len(orig.px)
                  /\ \A i \in 1..Len(got.px) :
                        got.px[i][Len(got.px[i])] = orig.px[i][Len(orig.px[i])])

C10_Witness ==
    /\ ValidCfg /\ Ingested /\ Returned /\ last.out.value # None
    /\ self.tool = "sketch" /\ self.source = "webcam" /\ self.mirror_webcam
    /\ self.shape # NoShape
    /\ last.out.value.mask # None
    /\ Len(last.arg.back.img.px) = MaxWidth
    /\ Len(last.arg.mask.img.px) = MaxWidth
    /\ Len(RasterOf(last.out.value.back).px) < MaxWidth
    /\ Len(RasterOf(last.out.value.mask).px) = MaxWidth
    /\ RasterOf(last.out.value.mask).px # Reverse(RasterOf(last.out.value.mask).px)

====
